---- MODULE Spec2Model ----
(***************************************************************************)
(* TestingComponent (src/TestingComponent/index.ts): a host-driven control *)
(* that shows a label, fetches a speech token, runs one single-shot speech *)
(* recognition and stores the outcome in displayText.                      *)
(*                                                                         *)
(* JavaScript runs the control on one event loop, so every action below is *)
(* one uninterrupted run of code between two suspension points: a host     *)
(* call, the continuation of sttFromMic after the token request settles,   *)
(* or the callback of recognizeOnceAsync.                                  *)
(***************************************************************************)
EXTENDS Naturals, Sequences, FiniteSets, TLC

(* JavaScript's null and undefined.  No bound value, token, payload or     *)
(* transcript of the model equals either of them.                          *)
Null == "<null>"
Undefined == "<undefined>"

(* Cap on the calls of the host's notifyOutputChanged that are counted.    *)
MaxNotify == 2

(* ---- literals of the source ---- *)
speechRegion == "westeurope"
Placeholder == "speak into your microphone..."
ErrorSentence == "ERROR: Speech was cancelled or could not be recognized. Ensure your microphone is working properly."
RecognizedSpeech == "RecognizedSpeech"

(* ---- inputs the environment can supply ---- *)
RawValues == {"", "on", "off"}
FormattedValues == {Undefined, "", "on", "ON"}
Contexts == [raw : RawValues, formatted : FormattedValues]
Tokens == {"tokA", "tokB"}
ErrorPayloads == {"Access denied", "Too many requests"}
Texts == {"", "hello", "turn left"}
Reasons == {RecognizedSpeech, "NoMatch", "Canceled"}
Results == [reason : Reasons, text : Texts]

(* How the promise of axios.post settles: resolved with a 2xx response     *)
(* (data is the token), rejected with an error carrying the non-2xx        *)
(* response (data is the server's error payload), or rejected with an      *)
(* error that has no response at all (network failure).                    *)
AxiosOutcomes ==
    {[resolved |-> TRUE, hasResponse |-> TRUE, data |-> t] : t \in Tokens}
    \cup {[resolved |-> FALSE, hasResponse |-> TRUE, data |-> p] : p \in ErrorPayloads}
    \cup {[resolved |-> FALSE, hasResponse |-> FALSE, data |-> Undefined]}

NoOutcome == [resolved |-> FALSE, hasResponse |-> FALSE, data |-> Null]

VARIABLES
    phase,            \* where the session started by init stands
    context,          \* this._context
    displayText,      \* this.displayText
    labelElement,     \* this.labelElement.innerHTML
    notifyCount,      \* calls of this._notifyOutputChanged
    outputs,          \* what the last getOutputs returned to the host
    destroyed,        \* the host has called destroy
    axiosOutcome,     \* how the token request settled
    tokenPromise,     \* the promise returned by getTokenOrRefresh
    speechConfig,     \* arguments of SpeechConfig.fromAuthorizationToken
    result,           \* the terminal result the engine delivered
    httpCalls,        \* calls of axios.post
    recognizeCalls,   \* calls of recognizeOnceAsync
    lastOp,           \* the operation that ran last
    lastWriteEvent,   \* the last event that assigned displayText
    writeLog,         \* the session's and init's writes of displayText, in order
    updatedWhilePending, \* updateView ran while the attempt was listening
    updatedBeforeToken, \* updateView ran while the token request was pending
    destroyedDuring   \* the phase the session was in when destroy was called

vars == <<phase, context, displayText, labelElement, notifyCount, outputs,
          destroyed, axiosOutcome, tokenPromise, speechConfig, result,
          httpCalls, recognizeCalls, lastOp, lastWriteEvent, writeLog,
          updatedWhilePending, updatedBeforeToken, destroyedDuring>>

(* JavaScript truthiness of a string-or-missing value. *)
Truthy(v) == v \notin {Null, Undefined, ""}

Init ==
    /\ phase = "Idle"
    /\ context = [raw |-> Undefined, formatted |-> Undefined]
    /\ displayText = Undefined
    /\ labelElement = Undefined
    /\ notifyCount = 0
    /\ outputs = [sampleProperty |-> Undefined]
    /\ destroyed = FALSE
    /\ axiosOutcome = NoOutcome
    /\ tokenPromise = [status |-> "pending"]
    /\ speechConfig = [state |-> "none"]
    /\ result = [reason |-> Undefined, text |-> Undefined]
    /\ httpCalls = 0
    /\ recognizeCalls = 0
    /\ lastOp = "constructor"
    /\ lastWriteEvent = "none"
    /\ writeLog = <<>>
    /\ updatedWhilePending = FALSE
    /\ updatedBeforeToken = FALSE
    /\ destroyedDuring = "none"

(* init: stores the context, fills displayText from the raw value and the  *)
(* label from the formatted value, then calls sttFromMic, which runs up to *)
(* the await of getTokenOrRefresh, i.e. issues the one axios.post.         *)
init_syncPlaceholder(ctx) ==
    /\ phase = "Idle"
    /\ context' = ctx
    /\ displayText' = Placeholder
    /\ labelElement' = IF Truthy(ctx.formatted) THEN ctx.formatted ELSE "0"
    /\ httpCalls' = httpCalls + 1
    /\ phase' = "TokenRequested"
    /\ lastOp' = "init"
    /\ lastWriteEvent' = "init"
    /\ writeLog' = Append(writeLog, "init")
    /\ UNCHANGED <<notifyCount, outputs, destroyed, axiosOutcome, tokenPromise,
                   speechConfig, result, recognizeCalls, updatedWhilePending,
                   updatedBeforeToken, destroyedDuring>>

init(ctx) ==
    /\ phase = "Idle"
    /\ context' = ctx
    /\ displayText' = ctx.raw
    /\ labelElement' = IF Truthy(ctx.formatted) THEN ctx.formatted ELSE "0"
    /\ httpCalls' = httpCalls + 1
    /\ phase' = "TokenRequested"
    /\ lastOp' = "init"
    /\ lastWriteEvent' = "init"
    /\ writeLog' = Append(writeLog, "init")
    /\ UNCHANGED <<notifyCount, outputs, destroyed, axiosOutcome, tokenPromise,
                   speechConfig, result, recognizeCalls, updatedWhilePending,
                   updatedBeforeToken, destroyedDuring>>

(* getTokenOrRefresh, from the settlement of axios.post to the settlement  *)
(* of its own promise.  In the catch block err.response.data is read: when *)
(* the error has no response this read throws a TypeError inside the       *)
(* handler, and the promise is rejected.                                   *)
getTokenOrRefresh_rethrow(o) ==
    IF o.resolved
    THEN [status |-> "fulfilled",
          value |-> [authToken |-> o.data, region |-> speechRegion]]
    ELSE [status |-> "rejected", reason |-> "AxiosError"]

getTokenOrRefresh_noRegion(o) ==
    IF o.resolved
    THEN [status |-> "fulfilled", value |-> [authToken |-> o.data]]
    ELSE IF o.hasResponse
         THEN [status |-> "fulfilled",
               value |-> [authToken |-> Null, error |-> o.data]]
         ELSE [status |-> "rejected", reason |-> "TypeError"]

getTokenOrRefresh(o) ==
    IF o.resolved
    THEN [status |-> "fulfilled",
          value |-> [authToken |-> o.data, region |-> speechRegion]]
    ELSE IF o.hasResponse
         THEN [status |-> "fulfilled",
               value |-> [authToken |-> Null, error |-> o.data]]
         ELSE [status |-> "rejected", reason |-> "TypeError"]

(* tokenObj.region || "" *)
regionOrEmpty_default(tokenObj) ==
    IF "region" \in DOMAIN tokenObj /\ Truthy(tokenObj.region)
    THEN tokenObj.region
    ELSE speechRegion

regionOrEmpty(tokenObj) ==
    IF "region" \in DOMAIN tokenObj /\ Truthy(tokenObj.region)
    THEN tokenObj.region
    ELSE ""

(* The text the callback of recognizeOnceAsync assigns to displayText. *)
callbackText_noPrefix(r) ==
    IF r.reason = RecognizedSpeech
    THEN "RECOGNIZED: " \o r.text
    ELSE ErrorSentence

callbackText_reason(r) ==
    IF r.reason = RecognizedSpeech
    THEN "RECOGNIZED: Text=" \o r.text
    ELSE "ERROR: " \o r.reason

callbackText(r) ==
    IF r.reason = RecognizedSpeech
    THEN "RECOGNIZED: Text=" \o r.text
    ELSE ErrorSentence

(* SpeechConfig.fromAuthorizationToken belongs to the speech SDK, not to    *)
(* this repository.  The source passes it whatever getTokenOrRefresh       *)
(* returned, a null token and "" included; whether the SDK then throws or  *)
(* returns a configuration is the SDK's choice, so both are allowed.  With *)
(* a token and a region it returns a configuration.                        *)
SdkMayThrow(tokenObj) ==
    IF tokenObj.authToken = Null THEN BOOLEAN ELSE {FALSE}

(* sttFromMic after `await this.getTokenOrRefresh()`: runs when the token  *)
(* request has settled with outcome o.  A rejected getTokenOrRefresh, or a *)
(* throw of fromAuthorizationToken, rejects the promise of sttFromMic,     *)
(* which init has dropped: nothing handles it and nothing is written.      *)
(* Otherwise the client is configured, displayText becomes the placeholder *)
(* and recognizeOnceAsync is called.                                       *)
sttFromMic_noPlaceholder(o, sdkThrows) ==
    /\ phase = "TokenRequested"
    /\ axiosOutcome' = o
    /\ tokenPromise' = getTokenOrRefresh(o)
    /\ lastOp' = "sttFromMic"
    /\ IF tokenPromise'.status = "rejected"
       THEN /\ phase' = "Rejected"
            /\ UNCHANGED <<speechConfig, displayText, recognizeCalls,
                           lastWriteEvent, writeLog>>
       ELSE /\ sdkThrows \in SdkMayThrow(tokenPromise'.value)
            /\ speechConfig' =
                  [state |-> IF sdkThrows THEN "threw" ELSE "configured",
                   authToken |-> tokenPromise'.value.authToken,
                   region |-> regionOrEmpty(tokenPromise'.value)]
            /\ IF sdkThrows
               THEN /\ phase' = "Rejected"
                    /\ UNCHANGED <<displayText, recognizeCalls,
                                   lastWriteEvent, writeLog>>
               ELSE /\ recognizeCalls' = recognizeCalls + 1
                    /\ phase' = "Listening"
                    /\ UNCHANGED <<displayText, lastWriteEvent, writeLog>>
    /\ UNCHANGED <<context, labelElement, notifyCount, outputs, destroyed,
                   result, httpCalls, updatedWhilePending,
                   updatedBeforeToken, destroyedDuring>>

sttFromMic_swallowSdkThrow(o, sdkThrows) ==
    /\ phase = "TokenRequested"
    /\ axiosOutcome' = o
    /\ tokenPromise' = getTokenOrRefresh(o)
    /\ lastOp' = "sttFromMic"
    /\ IF tokenPromise'.status = "rejected"
       THEN /\ phase' = "Rejected"
            /\ UNCHANGED <<speechConfig, displayText, recognizeCalls,
                           lastWriteEvent, writeLog>>
       ELSE /\ sdkThrows \in SdkMayThrow(tokenPromise'.value)
            /\ speechConfig' =
                  [state |-> IF sdkThrows THEN "threw" ELSE "configured",
                   authToken |-> tokenPromise'.value.authToken,
                   region |-> regionOrEmpty(tokenPromise'.value)]
            /\ displayText' = Placeholder
            /\ recognizeCalls' = recognizeCalls + 1
            /\ phase' = "Listening"
            /\ lastWriteEvent' = "placeholder"
            /\ writeLog' = Append(writeLog, "placeholder")
    /\ UNCHANGED <<context, labelElement, notifyCount, outputs, destroyed,
                   result, httpCalls, updatedWhilePending,
                   updatedBeforeToken, destroyedDuring>>

sttFromMic(o, sdkThrows) ==
    /\ phase = "TokenRequested"
    /\ axiosOutcome' = o
    /\ tokenPromise' = getTokenOrRefresh(o)
    /\ lastOp' = "sttFromMic"
    /\ IF tokenPromise'.status = "rejected"
       THEN /\ phase' = "Rejected"
            /\ UNCHANGED <<speechConfig, displayText, recognizeCalls,
                           lastWriteEvent, writeLog>>
       ELSE /\ sdkThrows \in SdkMayThrow(tokenPromise'.value)
            /\ speechConfig' =
                  [state |-> IF sdkThrows THEN "threw" ELSE "configured",
                   authToken |-> tokenPromise'.value.authToken,
                   region |-> regionOrEmpty(tokenPromise'.value)]
            /\ IF sdkThrows
               THEN /\ phase' = "Rejected"
                    /\ UNCHANGED <<displayText, recognizeCalls,
                                   lastWriteEvent, writeLog>>
               ELSE /\ displayText' = Placeholder
                    /\ recognizeCalls' = recognizeCalls + 1
                    /\ phase' = "Listening"
                    /\ lastWriteEvent' = "placeholder"
                    /\ writeLog' = Append(writeLog, "placeholder")
    /\ UNCHANGED <<context, labelElement, notifyCount, outputs, destroyed,
                   result, httpCalls, updatedWhilePending,
                   updatedBeforeToken, destroyedDuring>>

(* The callback passed to recognizeOnceAsync, run once with the engine's   *)
(* terminal result r: it assigns displayText and does nothing else.        *)
recognizeOnceAsyncCallback_keepHostValue(r) ==
    /\ phase = "Listening"
    /\ result' = r
    /\ displayText' = IF updatedWhilePending THEN displayText ELSE callbackText(r)
    /\ phase' = IF r.reason = RecognizedSpeech THEN "Recognized" ELSE "Failed"
    /\ lastOp' = "recognizeOnceAsyncCallback"
    /\ lastWriteEvent' = "completion"
    /\ writeLog' = Append(writeLog, "completion")
    /\ UNCHANGED <<context, labelElement, notifyCount, outputs, destroyed,
                   axiosOutcome, tokenPromise, speechConfig, httpCalls,
                   recognizeCalls, updatedWhilePending,
                   updatedBeforeToken, destroyedDuring>>

recognizeOnceAsyncCallback_notifies(r) ==
    /\ phase = "Listening"
    /\ result' = r
    /\ displayText' = callbackText(r)
    /\ notifyCount' = notifyCount + 1
    /\ phase' = IF r.reason = RecognizedSpeech THEN "Recognized" ELSE "Failed"
    /\ lastOp' = "recognizeOnceAsyncCallback"
    /\ lastWriteEvent' = "completion"
    /\ writeLog' = Append(writeLog, "completion")
    /\ UNCHANGED <<context, labelElement, outputs, destroyed,
                   axiosOutcome, tokenPromise, speechConfig, httpCalls,
                   recognizeCalls, updatedWhilePending,
                   updatedBeforeToken, destroyedDuring>>

recognizeOnceAsyncCallback(r) ==
    /\ phase = "Listening"
    /\ result' = r
    /\ displayText' = callbackText(r)
    /\ phase' = IF r.reason = RecognizedSpeech THEN "Recognized" ELSE "Failed"
    /\ lastOp' = "recognizeOnceAsyncCallback"
    /\ lastWriteEvent' = "completion"
    /\ writeLog' = Append(writeLog, "completion")
    /\ UNCHANGED <<context, labelElement, notifyCount, outputs, destroyed,
                   axiosOutcome, tokenPromise, speechConfig, httpCalls,
                   recognizeCalls, updatedWhilePending,
                   updatedBeforeToken, destroyedDuring>>

(* The host calls the lifecycle methods only between init and destroy. *)
HostMayCall == phase # "Idle" /\ ~destroyed

(* refreshData: copies displayText into the label and notifies the host.   *)
(* Nothing in the source calls it or registers this._refreshData as a      *)
(* listener; it is a public method, so it runs only when called from       *)
(* outside.                                                                *)
refreshData ==
    /\ HostMayCall
    /\ notifyCount < MaxNotify
    /\ labelElement' = displayText
    /\ notifyCount' = notifyCount + 1
    /\ lastOp' = "refreshData"
    /\ UNCHANGED <<phase, context, displayText, outputs, destroyed,
                   axiosOutcome, tokenPromise, speechConfig, result, httpCalls,
                   recognizeCalls, lastWriteEvent, writeLog,
                   updatedWhilePending,
                   updatedBeforeToken, destroyedDuring>>

updateView_restarts(ctx) ==
    /\ HostMayCall
    /\ displayText' = ctx.raw
    /\ context' = ctx
    /\ labelElement' = IF Truthy(ctx.formatted) THEN ctx.formatted ELSE ""
    /\ lastOp' = "updateView"
    /\ lastWriteEvent' = "updateView"
    /\ updatedWhilePending' = (updatedWhilePending \/ phase = "Listening")
    /\ updatedBeforeToken' = (updatedBeforeToken \/ phase = "TokenRequested")
    /\ httpCalls' = httpCalls + 1
    /\ phase' = "TokenRequested"
    /\ UNCHANGED <<notifyCount, outputs, destroyed, axiosOutcome,
                   tokenPromise, speechConfig, result,
                   recognizeCalls, writeLog, destroyedDuring>>

updateView_notifies(ctx) ==
    /\ HostMayCall
    /\ displayText' = ctx.raw
    /\ context' = ctx
    /\ labelElement' = IF Truthy(ctx.formatted) THEN ctx.formatted ELSE ""
    /\ notifyCount' = notifyCount + 1
    /\ lastOp' = "updateView"
    /\ lastWriteEvent' = "updateView"
    /\ updatedWhilePending' = (updatedWhilePending \/ phase = "Listening")
    /\ updatedBeforeToken' = (updatedBeforeToken \/ phase = "TokenRequested")
    /\ UNCHANGED <<phase, outputs, destroyed, axiosOutcome,
                   tokenPromise, speechConfig, result, httpCalls,
                   recognizeCalls, writeLog, destroyedDuring>>

updateView_zero(ctx) ==
    /\ HostMayCall
    /\ displayText' = ctx.raw
    /\ context' = ctx
    /\ labelElement' = IF Truthy(ctx.formatted) THEN ctx.formatted ELSE "0"
    /\ lastOp' = "updateView"
    /\ lastWriteEvent' = "updateView"
    /\ updatedWhilePending' = (updatedWhilePending \/ phase = "Listening")
    /\ updatedBeforeToken' = (updatedBeforeToken \/ phase = "TokenRequested")
    /\ UNCHANGED <<phase, notifyCount, outputs, destroyed, axiosOutcome,
                   tokenPromise, speechConfig, result, httpCalls,
                   recognizeCalls, writeLog, destroyedDuring>>

updateView(ctx) ==
    /\ HostMayCall
    /\ displayText' = ctx.raw
    /\ context' = ctx
    /\ labelElement' = IF Truthy(ctx.formatted) THEN ctx.formatted ELSE ""
    /\ lastOp' = "updateView"
    /\ lastWriteEvent' = "updateView"
    /\ updatedWhilePending' = (updatedWhilePending \/ phase = "Listening")
    /\ updatedBeforeToken' = (updatedBeforeToken \/ phase = "TokenRequested")
    /\ UNCHANGED <<phase, notifyCount, outputs, destroyed, axiosOutcome,
                   tokenPromise, speechConfig, result, httpCalls,
                   recognizeCalls, writeLog, destroyedDuring>>

getOutputs_label ==
    /\ HostMayCall
    /\ outputs' = [sampleProperty |-> labelElement]
    /\ lastOp' = "getOutputs"
    /\ UNCHANGED <<phase, context, displayText, labelElement, notifyCount,
                   destroyed, axiosOutcome, tokenPromise, speechConfig, result,
                   httpCalls, recognizeCalls, lastWriteEvent, writeLog,
                   updatedWhilePending,
                   updatedBeforeToken, destroyedDuring>>

getOutputs ==
    /\ HostMayCall
    /\ outputs' = [sampleProperty |-> displayText]
    /\ lastOp' = "getOutputs"
    /\ UNCHANGED <<phase, context, displayText, labelElement, notifyCount,
                   destroyed, axiosOutcome, tokenPromise, speechConfig, result,
                   httpCalls, recognizeCalls, lastWriteEvent, writeLog,
                   updatedWhilePending,
                   updatedBeforeToken, destroyedDuring>>

(* destroy: an empty body. *)
destroy_cancels ==
    /\ HostMayCall
    /\ destroyed' = TRUE
    /\ destroyedDuring' = phase
    /\ phase' = IF phase \in {"TokenRequested", "Listening"} THEN "Rejected" ELSE phase
    /\ lastOp' = "destroy"
    /\ UNCHANGED <<context, displayText, labelElement, notifyCount,
                   outputs, axiosOutcome, tokenPromise, speechConfig, result,
                   httpCalls, recognizeCalls, lastWriteEvent, writeLog,
                   updatedWhilePending, updatedBeforeToken>>

destroy ==
    /\ HostMayCall
    /\ destroyed' = TRUE
    /\ destroyedDuring' = phase
    /\ lastOp' = "destroy"
    /\ UNCHANGED <<phase, context, displayText, labelElement, notifyCount,
                   outputs, axiosOutcome, tokenPromise, speechConfig, result,
                   httpCalls, recognizeCalls, lastWriteEvent, writeLog,
                   updatedWhilePending, updatedBeforeToken>>

Next ==
    \/ \E ctx \in Contexts : init(ctx)
    \/ \E o \in AxiosOutcomes, sdkThrows \in BOOLEAN : sttFromMic(o, sdkThrows)
    \/ \E r \in Results : recognizeOnceAsyncCallback(r)
    \/ refreshData
    \/ \E ctx \in Contexts : updateView(ctx)
    \/ getOutputs
    \/ destroy

Spec == Init /\ [][Next]_vars

(* The HTTP library settles every request and the engine delivers one      *)
(* terminal result for every attempt; the host's calls are not scheduled   *)
(* by the control.                                                         *)
FairSpec ==
    /\ Spec
    /\ WF_vars(\E o \in AxiosOutcomes, sdkThrows \in BOOLEAN : sttFromMic(o, sdkThrows))
    /\ WF_vars(\E r \in Results : recognizeOnceAsyncCallback(r))

(* The text an event that assigns displayText writes, read off the event's *)
(* own input: the bound raw value, the placeholder, or the sentence for    *)
(* the engine's result.                                                    *)
WrittenBy(event) ==
    CASE event \in {"init", "updateView"} -> context.raw
      [] event = "placeholder" -> Placeholder
      [] event = "completion" ->
            IF result.reason = "RecognizedSpeech"
            THEN "RECOGNIZED: Text=" \o result.text
            ELSE ErrorSentence
      [] OTHER -> Undefined

(* C1: right after init, Display Text is the bound raw value V, and every  *)
(* write of a recognition outcome is preceded by the write of the          *)
(* placeholder.                                                            *)
C1_PlaceholderBeforeOutcome ==
    /\ (lastOp = "init" => displayText = context.raw /\ context.raw \in RawValues)
    /\ \A i \in 1..Len(writeLog) :
          writeLog[i] = "completion" =>
             \E j \in 1..(i - 1) : writeLog[j] = "placeholder"

C1_Witness ==
    /\ phase \in {"Recognized", "Failed"}
    /\ writeLog = <<"init", "placeholder", "completion">>

(* C2: among updateView calls and the recognition completion, the one that *)
(* fired last determines Display Text: after an updateView it is that      *)
(* call's raw value, after the completion it is the recognition outcome,   *)
(* whatever updateView wrote while the attempt was pending.                *)
C2_LastWriteWins ==
    lastWriteEvent \in {"updateView", "completion"} =>
        displayText = WrittenBy(lastWriteEvent)

C2_Witness ==
    /\ updatedWhilePending
    /\ lastWriteEvent = "completion"
    /\ displayText # context.raw

(* C3: once the recognition attempt has completed, refreshData eventually  *)
(* runs: the label shows the new Display Text and the host has been        *)
(* notified.                                                               *)
C3_CompletionRefreshes ==
    (lastOp = "recognizeOnceAsyncCallback")
        ~> (lastOp = "refreshData" /\ labelElement = displayText /\ notifyCount > 0)

(* C4: getOutputs returns the current Display Text, which is the value of  *)
(* the most recent write, and changes neither Display Text, the label, the *)
(* session phase nor the notification count.                               *)
C4_GetOutputsPureRead ==
    [][lastOp' = "getOutputs" =>
          /\ outputs'.sampleProperty = displayText
          /\ outputs'.sampleProperty = WrittenBy(lastWriteEvent)
          /\ UNCHANGED <<displayText, labelElement, phase, notifyCount>>]_vars

C4_Witness ==
    /\ lastOp = "getOutputs"
    /\ lastWriteEvent = "completion"
    /\ outputs.sampleProperty = "RECOGNIZED: Text=hello"
    /\ labelElement # displayText

(* C5: every failure of the recognition flow ends with Display Text set to *)
(* the error sentence and no fault is left unhandled.                      *)
C5_FailuresBecomeErrorText ==
    /\ phase # "Rejected"
    /\ (phase = "Failed" /\ lastWriteEvent = "completion" => displayText = ErrorSentence)
    /\ (~axiosOutcome.resolved /\ phase \notin {"Idle", "TokenRequested", "Listening"}
           /\ lastWriteEvent \notin {"updateView"}
           => displayText = ErrorSentence)

(* C6: once the session has written the placeholder or an outcome, the     *)
(* label shows that text.                                                  *)
C6_LabelShowsLatestText ==
    lastWriteEvent \in {"placeholder", "completion"} => labelElement = displayText

(* C7: a RecognizedSpeech result with text t sets Display Text to          *)
(* "RECOGNIZED: Text=" followed by t.                                      *)
C7_RecognizedTranscript ==
    (lastOp = "recognizeOnceAsyncCallback" /\ result.reason = "RecognizedSpeech") =>
        /\ displayText = "RECOGNIZED: Text=" \o result.text
        /\ (result.text = "hello" => displayText = "RECOGNIZED: Text=hello")
        /\ (result.text = "" => displayText = "RECOGNIZED: Text=")

C7_Witness ==
    /\ lastOp = "recognizeOnceAsyncCallback"
    /\ result = [reason |-> "RecognizedSpeech", text |-> "hello"]
    /\ displayText = "RECOGNIZED: Text=hello"

(* C8: a result with any other reason sets Display Text to the one fixed   *)
(* error sentence, whatever the reason and the text.                       *)
C8_FixedErrorSentence ==
    (lastOp = "recognizeOnceAsyncCallback" /\ result.reason # "RecognizedSpeech") =>
        displayText = "ERROR: Speech was cancelled or could not be recognized. Ensure your microphone is working properly."

C8_Witness ==
    /\ lastOp = "recognizeOnceAsyncCallback"
    /\ result = [reason |-> "Canceled", text |-> "turn left"]
    /\ phase = "Failed"

(* C9: a non-2xx response makes getTokenOrRefresh return normally with a   *)
(* null token and the server's error payload as the error field.           *)
C9_Non2xxIsStructuredResult ==
    (phase \notin {"Idle", "TokenRequested"} /\ ~axiosOutcome.resolved /\ axiosOutcome.hasResponse) =>
        /\ tokenPromise.status = "fulfilled"
        /\ tokenPromise.value.authToken = Null
        /\ "error" \in DOMAIN tokenPromise.value
        /\ tokenPromise.value.error = axiosOutcome.data
        /\ tokenPromise.value.error \notin {Null, Undefined}

C9_Witness ==
    /\ lastOp = "sttFromMic"
    /\ axiosOutcome = [resolved |-> FALSE, hasResponse |-> TRUE, data |-> "Access denied"]
    /\ tokenPromise = [status |-> "fulfilled",
                       value |-> [authToken |-> Null, error |-> "Access denied"]]

(* C10: every failure of the token exchange, a network failure without any *)
(* response included, makes getTokenOrRefresh return a result with a null  *)
(* token and an error field instead of raising.                            *)
C10_TransportFailureIsStructuredResult ==
    (phase \notin {"Idle", "TokenRequested"} /\ ~axiosOutcome.resolved) =>
        /\ tokenPromise.status = "fulfilled"
        /\ tokenPromise.value.authToken = Null
        /\ "error" \in DOMAIN tokenPromise.value

(* The session has got as far as a recognition attempt. *)
AttemptStarted == phase \in {"Listening", "Recognized", "Failed"}

(* C11: the session's phase changes only from Idle to TokenRequested, from  *)
(* TokenRequested through configuration to Listening, and from Listening   *)
(* to Recognized or Failed (a session ended by a fault stops and enters no *)
(* later phase); the client is configured only with a token fetch that has *)
(* completed, the placeholder and the attempt come only after the client   *)
(* is configured, and the one invocation of getTokenOrRefresh makes        *)
(* exactly one HTTP call, whatever its outcome.                            *)
C11_PhaseOrder ==
    [][/\ phase' # phase =>
             \/ phase = "Idle" /\ phase' = "TokenRequested"
             \/ phase = "TokenRequested" /\ phase' = "Listening"
                   /\ tokenPromise'.status = "fulfilled"
                   /\ speechConfig'.state = "configured"
             \/ phase = "TokenRequested" /\ phase' = "Rejected"
             \/ phase = "Listening" /\ phase' \in {"Recognized", "Failed"}
       /\ speechConfig'.state # "none" => tokenPromise'.status = "fulfilled"
       /\ ("placeholder" \in {writeLog'[i] : i \in 1..Len(writeLog')} \/ recognizeCalls' > 0)
             => speechConfig'.state = "configured"
       /\ httpCalls' = IF phase' = "Idle" THEN 0 ELSE 1]_vars

C11_Witness ==
    /\ phase = "Failed"
    /\ ~axiosOutcome.resolved
    /\ speechConfig.state = "configured"
    /\ httpCalls = 1
    /\ writeLog = <<"init", "placeholder", "completion">>

(* C12: after init, whatever the host calls and whenever the asynchronous  *)
(* completions arrive, at most one token fetch and one recognition attempt *)
(* are started, the completion writes Display Text at most once, and only  *)
(* init starts a token fetch.                                              *)
C12_SingleSession ==
    [][/\ httpCalls' <= 1
       /\ recognizeCalls' <= 1
       /\ Cardinality({i \in 1..Len(writeLog') : writeLog'[i] = "completion"}) <= 1
       /\ httpCalls' # httpCalls => lastOp' = "init"
       /\ recognizeCalls' # recognizeCalls => lastOp' = "sttFromMic"]_vars

C12_Witness ==
    /\ phase = "Recognized"
    /\ lastOp = "updateView"
    /\ notifyCount > 0
    /\ outputs.sampleProperty = "RECOGNIZED: Text=hello"
    /\ httpCalls = 1
    /\ recognizeCalls = 1

(* The token request has settled and getTokenOrRefresh returned a null     *)
(* token.                                                                  *)
NullTokenReturned ==
    /\ tokenPromise.status = "fulfilled"
    /\ tokenPromise.value.authToken = Null

C14_ConfiguredWithTokenAndRegion ==
    (axiosOutcome.resolved /\ phase # "TokenRequested") =>
        /\ speechConfig = [state |-> "configured",
                           authToken |-> axiosOutcome.data,
                           region |-> "westeurope"]
        /\ axiosOutcome.data \in Tokens
        /\ AttemptStarted

C14_Witness ==
    /\ lastOp = "sttFromMic"
    /\ axiosOutcome = [resolved |-> TRUE, hasResponse |-> TRUE, data |-> "tokB"]
    /\ speechConfig = [state |-> "configured", authToken |-> "tokB", region |-> "westeurope"]

(* C15: destroy changes nothing of the control or of its session, and a    *)
(* session that is pending when destroy is called goes on: its token       *)
(* request still settles, and its placeholder and outcome are still        *)
(* written to Display Text after destroy.                                  *)
C15_DestroyCancelsNothing ==
    /\ [][/\ lastOp' = "destroy" =>
                UNCHANGED <<phase, context, displayText, labelElement,
                            notifyCount, outputs, axiosOutcome, tokenPromise,
                            speechConfig, result, httpCalls, recognizeCalls,
                            writeLog>>
          /\ (destroyed /\ phase = "TokenRequested" /\ phase' = "Listening")
                => displayText' = Placeholder
          /\ (destroyed /\ phase = "Listening" /\ phase' # "Listening")
                => displayText' = WrittenBy("completion")']_vars
    /\ ((destroyed /\ phase = "TokenRequested") ~> (phase # "TokenRequested"))
    /\ ((destroyed /\ phase = "Listening")
            ~> (phase \in {"Recognized", "Failed"} /\ displayText = WrittenBy("completion")))

C15_Witness ==
    /\ destroyedDuring = "TokenRequested"
    /\ phase = "Recognized"
    /\ writeLog = <<"init", "placeholder", "completion">>
    /\ displayText = "RECOGNIZED: Text=turn left"

(* C16: updateView assigns Display Text, the stored context and the label  *)
(* and nothing else: the session's phase, its token, client and result,    *)
(* the counts of HTTP calls and attempts and the host-notification count   *)
(* are as before.                                                          *)
C16_UpdateViewFrame ==
    [][lastOp' = "updateView" =>
          /\ UNCHANGED <<phase, notifyCount, httpCalls, recognizeCalls,
                         axiosOutcome, tokenPromise, speechConfig, result,
                         writeLog, outputs, destroyed>>
          /\ displayText' = context'.raw]_vars

C16_Witness ==
    /\ lastOp = "updateView"
    /\ phase = "Listening"
    /\ updatedWhilePending
    /\ displayText = "off"
    /\ recognizeCalls = 1

(* C17: init does not write the placeholder; while the token request is    *)
(* pending Display Text is the bound raw value; when the request resolves  *)
(* with a token the placeholder replaces whatever updateView wrote in the  *)
(* meantime, so that value is no longer in Display Text.                   *)
C17_PlaceholderAfterToken ==
    [][/\ phase' = "TokenRequested" =>
             displayText' = context'.raw /\ displayText' # Placeholder
       /\ (phase = "TokenRequested" /\ phase' = "Listening") =>
             displayText' = Placeholder /\ displayText' # context'.raw
       /\ (phase = "TokenRequested" /\ phase' # phase /\ axiosOutcome'.resolved) =>
             phase' = "Listening"]_vars

C17_Witness ==
    /\ updatedBeforeToken
    /\ context.raw = "off"
    /\ phase = "Listening"
    /\ lastOp = "getOutputs"
    /\ outputs.sampleProperty = Placeholder

(* C18: the host's notifyOutputChanged is called only by refreshData, once *)
(* per call, and when it is called the label equals Display Text, which    *)
(* refreshData leaves as it was.                                           *)
C18_NotifyOnlyFromRefresh ==
    [][notifyCount' # notifyCount =>
          /\ lastOp' = "refreshData"
          /\ notifyCount' = notifyCount + 1
          /\ labelElement' = displayText'
          /\ displayText' = displayText]_vars

C18_Witness ==
    /\ lastOp = "refreshData"
    /\ notifyCount = 1
    /\ lastWriteEvent = "completion"
    /\ labelElement = ErrorSentence
    /\ displayText = ErrorSentence

(* C19: after init and after updateView the label is the formatted value   *)
(* when that is present; when it is absent or empty, init leaves "0" and   *)
(* updateView leaves the empty string.  Display Text is the raw value, so  *)
(* the two can differ.                                                     *)
C19_LabelFromFormatted ==
    /\ lastOp = "init" =>
          /\ labelElement = IF context.formatted \in {Undefined, ""}
                            THEN "0" ELSE context.formatted
          /\ displayText = context.raw
    /\ lastOp = "updateView" =>
          /\ labelElement = IF context.formatted \in {Undefined, ""}
                            THEN "" ELSE context.formatted
          /\ displayText = context.raw

C19_Witness ==
    /\ lastOp = "updateView"
    /\ context = [raw |-> "on", formatted |-> ""]
    /\ labelElement = ""
    /\ displayText = "on"

====
